---- MODULE Spec2Model ----
(***************************************************************************)
(* The run/action timeline state machine of the code-agent UI:             *)
(*   - the WebSocket event reducer      (hooks/useWebSocket, handleWSMessage)*)
(*   - the control channel              (hooks/useChat, sendPrompt and      *)
(*                                       cancelCurrentTask)                 *)
(*   - the execution-request handlers   (App.tsx, handleRejectExecution and *)
(*                                       handleAcceptExecution)             *)
(*   - the run registry                 (context/RunContext: createRun,     *)
(*                                       addAction, updateAction)           *)
(* JavaScript is single threaded: every handler runs to completion, and an *)
(* async handler is cut at its await of fetch: the part before the await   *)
(* is one action, the continuation after the response is another, and any  *)
(* WebSocket message may be handled in between.                            *)
(***************************************************************************)
EXTENDS Integers, Sequences, FiniteSets, TLC

(* ------------------------------ bounds --------------------------------- *)

\* number of task ids the server hands out
MaxTasks == 1
\* number of enqueue requests, and of cancel requests, awaiting their response
MaxInFlight == 2
\* largest value of the millisecond clock read by Date.now()
MaxClock == 1
\* total number of actions held by all runs together
MaxActions == 3
\* runs, and tool actions per run, of the registries the pending request is
\* derived from
MaxRuns == 2
MaxSlots == 2

(* ------------------------------ values --------------------------------- *)

TaskIds == 1..MaxTasks
\* currentTaskId === null
NoTask == 0

\* the tool-call ids the server uses: one id is one call of one tool
CallIds == {<<"call", 1>>, <<"call", 2>>, <<"call", 3>>}
UndefId == <<"undefined", 0>>
UndefTime == <<"undefined", 0>>
\* text values are tuples of characters, so that trim() can be computed
UndefText == <<"undefined">>
Undef == "undefined"

\* the timestamp field of a server event (an opaque ISO string)
EventTimestamps == {<<"event", 0>>}
\* new Date().toISOString() at clock value n
IsoString(n) == <<"iso", n>>

\* toolCall.function.arguments: absent, or an object with or without the
\* response_on_reject member
ResponseOnReject(arguments) ==
    IF arguments = "args_with_reject" THEN "No thanks." ELSE Undef

\* resp.output_data: a plain string, or an object carrying new_code
StringOutput == [type |-> "string", text |-> <<"o">>, new_code |-> Undef]
CodeOutput == [type |-> "object", text |-> UndefText, new_code |-> "new code"]
NoOutput == [type |-> Undef, text |-> UndefText, new_code |-> Undef]
OutputDatas == {StringOutput, CodeOutput}

ToolOf(callId) ==
    CASE callId[2] = 1 -> "request_code_execution"
      [] callId[2] = 2 -> "think"
      [] OTHER -> "edit_code"

ToolCalls ==
    {[present |-> TRUE, id |-> c, name |-> ToolOf(c), arguments |-> "args_with_reject"] :
        c \in CallIds}
NoToolCall == [present |-> FALSE, id |-> UndefId, name |-> Undef, arguments |-> Undef]

\* what the user can have typed in the chat box
PromptInputs == {<<>>, <<" ">>, <<" ", "a">>}

\* what runCurrentCode() can return (the joined log lines)
ExecOutputs == {"", "3"}

(* ------------------------------ actions -------------------------------- *)

\* An Action of types/run: the shared fields and the members of every kind;
\* a member a kind does not have is undefined.
BlankAction ==
    [id |-> UndefId, kind |-> Undef, status |-> Undef, timestamp |-> UndefTime,
     toolName |-> Undef, arguments |-> Undef, responseOnReject |-> Undef,
     result |-> NoOutput, error |-> Undef, content |-> UndefText,
     message |-> Undef, output |-> Undef]

(* --------------------------- run registry ------------------------------ *)

\* index of the first action with this id, 0 when there is none
IndexOfAction(actions, actionId) ==
    IF \E i \in 1..Len(actions) : actions[i].id = actionId
    THEN CHOOSE i \in 1..Len(actions) :
            /\ actions[i].id = actionId
            /\ \A j \in 1..(i - 1) : actions[j].id # actionId
    ELSE 0

HasRun(rs, taskId) == taskId \in DOMAIN rs

HasAction(rs, taskId, actionId) ==
    /\ HasRun(rs, taskId)
    /\ IndexOfAction(rs[taskId].actions, actionId) # 0

\* the record updateAction hands to its updater (only read when HasAction)
ExistingAction(rs, taskId, actionId) ==
    IF HasAction(rs, taskId, actionId)
    THEN rs[taskId].actions[IndexOfAction(rs[taskId].actions, actionId)]
    ELSE BlankAction

\* createRun(taskId, prompt): a new run with no actions when taskId is absent
createRunRuns(rs, taskId, prompt) ==
    IF HasRun(rs, taskId) THEN rs
    ELSE rs @@ (taskId :> [taskId |-> taskId, prompt |-> prompt, actions |-> <<>>])

createRunOrder(rs, order, taskId) ==
    IF HasRun(rs, taskId) THEN order ELSE Append(order, taskId)

\* addAction(taskId, action): append; an unknown taskId is dropped
addAction(rs, taskId, action) ==
    IF ~HasRun(rs, taskId) THEN rs
    ELSE [rs EXCEPT ![taskId].actions = Append(@, action)]

\* updateAction(taskId, actionId, updater) with updated = updater(existing):
\* replace in place when actionId is present, append when it is absent
updateAction(rs, taskId, actionId, updated) ==
    IF ~HasRun(rs, taskId) THEN rs
    ELSE LET i == IndexOfAction(rs[taskId].actions, actionId)
         IN  IF i = 0
             THEN [rs EXCEPT ![taskId].actions = Append(@, updated)]
             ELSE [rs EXCEPT ![taskId].actions[i] = updated]

\* runOrder.flatMap(id => runs[id]?.actions || [])
RECURSIVE Flatten(_, _)
Flatten(rs, order) ==
    IF order = <<>> THEN <<>>
    ELSE (IF HasRun(rs, Head(order)) THEN rs[Head(order)].actions ELSE <<>>)
         \o Flatten(rs, Tail(order))

timelineActions(rs, order) == Flatten(rs, order)

\* every run is listed in runOrder, so this counts all the actions held
TotalActions(rs, order) == Len(Flatten(rs, order))

(* ------------------------------- state --------------------------------- *)

VARIABLES
    runs,            \* RunContext: taskId -> [taskId, prompt, actions]
    runOrder,        \* RunContext: task ids in creation order
    loading,         \* App: useState(false)
    currentTaskId,   \* App: useState(null), the active-task pointer
    cancelling,      \* App: useState(false)
    proposedCode,    \* App: useState(null)
    executingCode,   \* App: useState(false)
    executionAction, \* App: 'accept' | 'reject' | null
    now,             \* the clock Date.now() reads
    issued,          \* number of task ids the server has handed out
    enqueueReqs,     \* sendPrompt calls suspended at their fetch
    cancelReqs,      \* number of cancelCurrentTask calls suspended at their fetch
    toolReq,         \* the accept/reject handler suspended at its fetch
    hist             \* the last handler that ran, its input and the state before it

vars == <<runs, runOrder, loading, currentTaskId, cancelling, proposedCode,
          executingCode, executionAction, now, issued, enqueueReqs, cancelReqs,
          toolReq, hist>>

NoEvent ==
    [event_type |-> "none", task_id |-> NoTask, timestamp |-> UndefTime,
     toolCall |-> NoToolCall, output_data |-> NoOutput, error |-> Undef,
     content |-> UndefText]

NoToolReq ==
    [active |-> FALSE, accept |-> FALSE, taskId |-> NoTask, pending |-> BlankAction,
     rejectMsg |-> Undef, output |-> Undef]

\* hist after a handler: op names the handler; for a server event, type, task,
\* id and name are its event_type, its task_id and the id and tool name of its
\* tool call, result and error its output_data and its error; text is the
\* prompt of a sendPrompt call (the content of an agent_output); hadRun tells
\* whether the run of that task was held before the handler ran, and before is
\* the action
\* sequence that run had then; call is the accept/reject call made or resumed;
\* outcome tells how the handler's request ended
Did(op, ev, call, outcome) ==
    [op |-> op, type |-> ev.event_type, task |-> ev.task_id,
     id |-> ev.toolCall.id, name |-> ev.toolCall.name, text |-> ev.content,
     result |-> ev.output_data, error |-> ev.error,
     hadRun |-> HasRun(runs, ev.task_id),
     before |-> IF HasRun(runs, ev.task_id) THEN runs[ev.task_id].actions ELSE << >>,
     call |-> call, outcome |-> outcome]

Init ==
    /\ runs = << >>
    /\ runOrder = << >>
    /\ loading = FALSE
    /\ currentTaskId = NoTask
    /\ cancelling = FALSE
    /\ proposedCode = "null"
    /\ executingCode = FALSE
    /\ executionAction = "null"
    /\ now = 0
    /\ issued = 0
    /\ enqueueReqs = << >>
    /\ cancelReqs = 0
    /\ toolReq = NoToolReq
    /\ hist = [op |-> "init", type |-> "none", task |-> NoTask, id |-> UndefId,
               name |-> Undef, text |-> UndefText, result |-> NoOutput,
               error |-> Undef, hadRun |-> FALSE,
               before |-> << >>,
               call |-> NoToolReq, outcome |-> "none"]

\* the bound on the actions held, applied to the state a handler leaves
Fits(rs, order) == TotalActions(rs, order) <= MaxActions

(* --------------------------- event reducer ----------------------------- *)

\* the events the server can push for a task it has handed out
ToolEvents(types) ==
    [event_type : types, task_id : 1..issued, timestamp : EventTimestamps,
     toolCall : ToolCalls, output_data : {NoOutput}, error : {Undef},
     content : {UndefText}]

StartedEvents == ToolEvents({"progress_update_tool_action_started"})

\* data.result of a completed event: the tool call and its output
CompletedResults ==
    {r \in [toolCall : ToolCalls, output_data : OutputDatas] :
        \/ r.toolCall.name = "think"
        \/ r.toolCall.name = "edit_code" /\ r.output_data = CodeOutput
        \/ r.toolCall.name = "request_code_execution" /\ r.output_data = StringOutput}

CompletedEvents ==
    {[event_type |-> "progress_update_tool_action_completed", task_id |-> t,
      timestamp |-> ts, toolCall |-> r.toolCall, output_data |-> r.output_data,
      error |-> Undef, content |-> UndefText] :
        t \in 1..issued, ts \in EventTimestamps, r \in CompletedResults}

FailedEvents ==
    [event_type : {"progress_update_tool_action_failed"}, task_id : 1..issued,
     timestamp : EventTimestamps, toolCall : ToolCalls, output_data : {NoOutput},
     error : {"boom"}, content : {UndefText}]

PlainEvents(types, contents) ==
    [event_type : types, task_id : 1..issued, timestamp : EventTimestamps,
     toolCall : {NoToolCall}, output_data : {NoOutput}, error : {Undef},
     content : contents]

AgentOutputEvents == PlainEvents({"agent_output"}, {<<"answer">>})
RunCancelledEvents == PlainEvents({"run_cancelled"}, {UndefText})
RunFailedEvents == PlainEvents({"run_failed"}, {UndefText})

\* events the switch has no effect for: an event_type it does not know, and a
\* tool event whose tool-call descriptor is missing
IgnoredEvents ==
    PlainEvents({"progress_update_tool_action_started",
                 "progress_update_tool_action_completed",
                 "progress_update_tool_action_failed",
                 "run_queued"}, {UndefText})

ToolEventTypes ==
    {"progress_update_tool_action_started",
     "progress_update_tool_action_completed",
     "progress_update_tool_action_failed"}

HandledTypes == ToolEventTypes \cup {"agent_output", "run_cancelled", "run_failed"}

\* startAction of case 'progress_update_tool_action_started'
startAction(ev) ==
    IF ev.toolCall.name = "request_code_execution"
    THEN [BlankAction EXCEPT
            !.id = ev.toolCall.id,
            !.kind = "exec_request",
            !.status = "running",
            !.timestamp = ev.timestamp,
            !.responseOnReject = ResponseOnReject(ev.toolCall.arguments)]
    ELSE [BlankAction EXCEPT
            !.id = ev.toolCall.id,
            !.kind = "tool_started",
            !.status = "running",
            !.timestamp = ev.timestamp,
            !.toolName = ev.toolCall.name,
            !.arguments = ev.toolCall.arguments]

\* completedUpdater without the default record: ({...prev, kind, status, result})
completedUpdaterNoDefault(hasPrev, prev, ev) ==
    [(IF hasPrev THEN prev ELSE BlankAction) EXCEPT
        !.kind = "tool_completed", !.status = "done", !.result = ev.output_data]

\* completedUpdater without the result member
completedUpdaterNoResult(hasPrev, prev, ev) ==
    LET base == IF hasPrev THEN prev
                ELSE [BlankAction EXCEPT
                        !.id = ev.toolCall.id,
                        !.kind = "tool_completed",
                        !.toolName = ev.toolCall.name,
                        !.timestamp = ev.timestamp,
                        !.status = "done"]
    IN  [base EXCEPT !.kind = "tool_completed", !.status = "done"]

\* the updater of case 'progress_update_tool_action_completed':
\* prev => ({...(prev ?? {id, kind, toolName, timestamp, status}), kind, status, result})
completedUpdater(hasPrev, prev, ev) ==
    LET base == IF hasPrev THEN prev
                ELSE [BlankAction EXCEPT
                        !.id = ev.toolCall.id,
                        !.kind = "tool_completed",
                        !.toolName = ev.toolCall.name,
                        !.timestamp = ev.timestamp,
                        !.status = "done"]
    IN  [base EXCEPT !.kind = "tool_completed", !.status = "done",
                     !.result = ev.output_data]

\* thoughtAction, pushed for the think tool when its output is a string
thoughtAction(ev, clock) ==
    [BlankAction EXCEPT
        !.id = <<"thought", clock>>,
        !.kind = "assistant_thought",
        !.status = "done",
        !.content = ev.output_data.text,
        !.timestamp = ev.timestamp]

\* the updater of case 'progress_update_tool_action_failed'
failedUpdater(hasPrev, prev, ev) ==
    LET base == IF hasPrev THEN prev
                ELSE [BlankAction EXCEPT
                        !.id = ev.toolCall.id,
                        !.kind = "tool_failed",
                        !.toolName = ev.toolCall.name,
                        !.timestamp = ev.timestamp]
    IN  [base EXCEPT !.kind = "tool_failed", !.status = "failed",
                     !.error = ev.error]

\* answerAction of case 'agent_output'
answerAction(ev, clock) ==
    [BlankAction EXCEPT
        !.id = <<"answer", clock>>,
        !.kind = "final_answer",
        !.status = "done",
        !.content = ev.content,
        !.timestamp = ev.timestamp]

\* notice of case 'run_cancelled'
cancelNotice(ev, clock) ==
    [BlankAction EXCEPT
        !.id = <<"cancel", clock>>,
        !.kind = "system_notice",
        !.status = "done",
        !.message = "Task was cancelled.",
        !.timestamp = ev.timestamp]

\* failNotice with the message of the run_cancelled case
failNoticeCopied(ev, clock) ==
    [BlankAction EXCEPT
        !.id = <<"fail", clock>>,
        !.kind = "system_notice",
        !.status = "done",
        !.message = "Task was cancelled.",
        !.timestamp = ev.timestamp]

\* notice of case 'run_failed'
failNotice(ev, clock) ==
    [BlankAction EXCEPT
        !.id = <<"fail", clock>>,
        !.kind = "system_notice",
        !.status = "done",
        !.message = "Failed to get agent response.",
        !.timestamp = ev.timestamp]

\* the proposed code after a completed event: set by an edit_code completion
\* whose output carries new_code
completedProposedCode(ev, proposed) ==
    IF ev.toolCall.name = "edit_code" /\ ev.output_data.new_code # Undef
    THEN ev.output_data.new_code
    ELSE proposed

\* completedRuns without the request_code_execution branch
completedRunsNoSkip(rs, ev, clock) ==
    LET t == ev.task_id
        c == ev.toolCall.id
    IN  updateAction(rs, t, c,
            [(IF HasAction(rs, t, c) THEN ExistingAction(rs, t, c)
              ELSE [BlankAction EXCEPT !.id = c, !.toolName = ev.toolCall.name,
                                       !.timestamp = ev.timestamp])
             EXCEPT !.kind = "tool_completed", !.status = "done",
                    !.result = ev.output_data])

\* the runs after a completed event: nothing for request_code_execution,
\* else the upsert and, for a think call with a string output, the thought
completedRuns(rs, ev, clock) ==
    IF ev.toolCall.name = "request_code_execution" THEN rs
    ELSE LET t == ev.task_id
             c == ev.toolCall.id
             marked == updateAction(rs, t, c,
                          completedUpdater(HasAction(rs, t, c),
                                           ExistingAction(rs, t, c), ev))
         IN  IF ev.toolCall.name = "think" /\ ev.output_data.type = "string"
             THEN addAction(marked, t, thoughtAction(ev, clock))
             ELSE marked

\* the runs after a failed event, were the record taken out and pushed again
failedRunsReinserted(rs, ev) ==
    LET t == ev.task_id
        c == ev.toolCall.id
        failed == failedUpdater(HasAction(rs, t, c), ExistingAction(rs, t, c), ev)
    IN  IF ~HasRun(rs, t) THEN rs
        ELSE [rs EXCEPT ![t].actions =
                Append(SelectSeq(@, LAMBDA a : a.id # c), failed)]

\* the runs after a failed event
failedRuns(rs, ev) ==
    LET t == ev.task_id
        c == ev.toolCall.id
    IN  updateAction(rs, t, c,
            failedUpdater(HasAction(rs, t, c), ExistingAction(rs, t, c), ev))

\* what a server event leaves alone whatever its type
WSFrame ==
    UNCHANGED <<runOrder, executingCode, executionAction, now, issued,
                enqueueReqs, cancelReqs, toolReq>>

\* WSStarted creating the run of an unknown task before adding the action
WSStartedCreatesRun(ev) ==
    /\ ev.event_type = "progress_update_tool_action_started"
    /\ ev.toolCall.present
    /\ runs' = addAction(createRunRuns(runs, ev.task_id, UndefText),
                         ev.task_id, startAction(ev))
    /\ runOrder' = createRunOrder(runs, runOrder, ev.task_id)
    /\ Fits(runs', runOrder')
    /\ hist' = Did("ws", ev, NoToolReq, "none")
    /\ UNCHANGED <<loading, currentTaskId, cancelling, proposedCode,
                   executingCode, executionAction, now, issued, enqueueReqs,
                   cancelReqs, toolReq>>

WSStarted(ev) ==
    /\ ev.event_type = "progress_update_tool_action_started"
    /\ ev.toolCall.present
    /\ runs' = addAction(runs, ev.task_id, startAction(ev))
    /\ Fits(runs', runOrder)
    /\ hist' = Did("ws", ev, NoToolReq, "none")
    /\ UNCHANGED <<loading, currentTaskId, cancelling, proposedCode>>
    /\ WSFrame

WSCompleted(ev) ==
    /\ ev.event_type = "progress_update_tool_action_completed"
    /\ ev.toolCall.present
    /\ proposedCode' = completedProposedCode(ev, proposedCode)
    /\ runs' = completedRuns(runs, ev, now)
    /\ Fits(runs', runOrder)
    /\ hist' = Did("ws", ev, NoToolReq, "none")
    /\ UNCHANGED <<loading, currentTaskId, cancelling>>
    /\ WSFrame

WSFailed(ev) ==
    /\ ev.event_type = "progress_update_tool_action_failed"
    /\ ev.toolCall.present
    /\ runs' = failedRuns(runs, ev)
    /\ Fits(runs', runOrder)
    /\ hist' = Did("ws", ev, NoToolReq, "none")
    /\ UNCHANGED <<loading, currentTaskId, cancelling, proposedCode>>
    /\ WSFrame

\* the agent_output case without its setCurrentTaskId(null)
agentOutputTaskIdKept(ev, current) == current

\* case 'agent_output': setCurrentTaskId(null)
agentOutputTaskId(ev, current) == NoTask

WSAgentOutput(ev) ==
    /\ ev.event_type = "agent_output"
    /\ runs' = addAction(runs, ev.task_id, answerAction(ev, now))
    /\ Fits(runs', runOrder)
    /\ loading' = FALSE
    /\ currentTaskId' = agentOutputTaskId(ev, currentTaskId)
    /\ hist' = Did("ws", ev, NoToolReq, "none")
    /\ UNCHANGED <<cancelling, proposedCode>>
    /\ WSFrame

WSRunCancelled(ev) ==
    /\ ev.event_type = "run_cancelled"
    /\ runs' = addAction(runs, ev.task_id, cancelNotice(ev, now))
    /\ Fits(runs', runOrder)
    /\ loading' = FALSE
    /\ cancelling' = FALSE
    /\ currentTaskId' = NoTask
    /\ hist' = Did("ws", ev, NoToolReq, "none")
    /\ UNCHANGED proposedCode
    /\ WSFrame

WSRunFailed(ev) ==
    /\ ev.event_type = "run_failed"
    /\ runs' = addAction(runs, ev.task_id, failNotice(ev, now))
    /\ Fits(runs', runOrder)
    /\ loading' = FALSE
    /\ cancelling' = FALSE
    /\ currentTaskId' = NoTask
    /\ hist' = Did("ws", ev, NoToolReq, "none")
    /\ UNCHANGED proposedCode
    /\ WSFrame

\* the ignored cases, were they to signal the end of the run
WSIgnoredStopsLoading(ev) ==
    /\ \/ ev.event_type \notin HandledTypes
       \/ ev.event_type \in ToolEventTypes /\ ~ev.toolCall.present
    /\ loading' = FALSE
    /\ hist' = Did("ws", ev, NoToolReq, "none")
    /\ UNCHANGED <<runs, currentTaskId, cancelling, proposedCode>>
    /\ WSFrame

\* the break of a tool event without descriptor, and the default case
WSIgnored(ev) ==
    /\ \/ ev.event_type \notin HandledTypes
       \/ ev.event_type \in ToolEventTypes /\ ~ev.toolCall.present
    /\ hist' = Did("ws", ev, NoToolReq, "none")
    /\ UNCHANGED <<runs, loading, currentTaskId, cancelling, proposedCode>>
    /\ WSFrame

\* ws.onmessage = handleWSMessage: one message, handled to completion
handleWSMessage ==
    \/ \E ev \in StartedEvents : WSStarted(ev)
    \/ \E ev \in CompletedEvents : WSCompleted(ev)
    \/ \E ev \in FailedEvents : WSFailed(ev)
    \/ \E ev \in AgentOutputEvents : WSAgentOutput(ev)
    \/ \E ev \in RunCancelledEvents : WSRunCancelled(ev)
    \/ \E ev \in RunFailedEvents : WSRunFailed(ev)
    \/ \E ev \in IgnoredEvents : WSIgnored(ev)

\* the clock value is part of some action held (of its id or its timestamp)
ClockUsed(rs, order, clock) ==
    \E i \in 1..Len(timelineActions(rs, order)) :
        LET a == timelineActions(rs, order)[i]
        IN  a.id[1] # "call" /\ a.id[2] = clock

\* the millisecond clock advances between handlers (not always: two handlers
\* can run within one millisecond); time is counted from the first clock value
\* that is kept in an action
Tick ==
    /\ now < MaxClock
    /\ ClockUsed(runs, runOrder, now)
    /\ now' = now + 1
    /\ UNCHANGED <<runs, runOrder, loading, currentTaskId, cancelling, proposedCode,
                   executingCode, executionAction, issued, enqueueReqs,
                   cancelReqs, toolReq, hist>>

(* --------------------------- control channel --------------------------- *)

\* String.prototype.trim on a tuple of characters
RECURSIVE TrimStart(_)
TrimStart(s) ==
    IF s # <<>> /\ Head(s) = " " THEN TrimStart(Tail(s)) ELSE s

RECURSIVE TrimEnd(_)
TrimEnd(s) ==
    IF s # <<>> /\ s[Len(s)] = " " THEN TrimEnd(SubSeq(s, 1, Len(s) - 1)) ELSE s

Trim(s) == TrimEnd(TrimStart(s))

\* a sequence without its i-th element
RemoveAt(s, i) == SubSeq(s, 1, i - 1) \o SubSeq(s, i + 1, Len(s))

\* handleSendMessage and sendPrompt up to the await of fetch(enqueue), with
\* text in the chat box: nothing happens for a blank text or while loading;
\* setInput('') empties the box, and the call keeps the text it was made with
SendPromptStart(text) ==
    /\ Trim(text) # <<>>
    /\ ~loading
    /\ Len(enqueueReqs) < MaxInFlight
    /\ loading' = TRUE
    /\ enqueueReqs' = Append(enqueueReqs, [query |-> text, task_id |-> NoTask])
    /\ hist' = Did("sendPrompt", NoEvent, NoToolReq, "sent")
    /\ UNCHANGED <<runs, runOrder, currentTaskId, cancelling, proposedCode,
                   executingCode, executionAction, now, issued, cancelReqs, toolReq>>

\* the server takes an enqueue request: it hands out the next task id, and from
\* then on pushes events for that task, whether or not the response has arrived
ServerEnqueue(i) ==
    /\ enqueueReqs[i].task_id = NoTask
    /\ issued < MaxTasks
    /\ issued' = issued + 1
    /\ enqueueReqs' = [enqueueReqs EXCEPT ![i].task_id = issued + 1]
    /\ UNCHANGED <<runs, runOrder, loading, currentTaskId, cancelling, proposedCode,
                   executingCode, executionAction, now, cancelReqs, toolReq,
                   hist>>

\* userAction with the trimmed text as content
userActionTrimmed(query, clock) ==
    [BlankAction EXCEPT
        !.id = <<"user", clock>>,
        !.kind = "user_message",
        !.status = "done",
        !.content = Trim(query),
        !.timestamp = IsoString(clock)]

\* userAction of sendPrompt
userAction(query, clock) ==
    [BlankAction EXCEPT
        !.id = <<"user", clock>>,
        !.kind = "user_message",
        !.status = "done",
        !.content = query,
        !.timestamp = IsoString(clock)]

\* sendPrompt after the await, res.ok: createRun, setCurrentTaskId, addAction
SendPromptOk(i) ==
    LET req == enqueueReqs[i]
        created == createRunRuns(runs, req.task_id, req.query)
    IN  /\ req.task_id # NoTask
        /\ runs' = addAction(created, req.task_id, userAction(req.query, now))
        /\ runOrder' = createRunOrder(runs, runOrder, req.task_id)
        /\ Fits(runs', runOrder')
        /\ currentTaskId' = req.task_id
        /\ enqueueReqs' = RemoveAt(enqueueReqs, i)
        /\ hist' = Did("sendPrompt",
                       [NoEvent EXCEPT !.task_id = req.task_id, !.content = req.query],
                       NoToolReq, "ok")
        /\ UNCHANGED <<loading, cancelling, proposedCode, executingCode,
                       executionAction, now, issued, cancelReqs, toolReq>>

\* sendPrompt after the await, !res.ok: console.error, setLoading(false)
SendPromptNotOk(i) ==
    LET req == enqueueReqs[i]
    IN  /\ req.task_id = NoTask
        /\ loading' = FALSE
        /\ enqueueReqs' = RemoveAt(enqueueReqs, i)
        /\ hist' = Did("sendPrompt", NoEvent, NoToolReq, "not_ok")
        /\ UNCHANGED <<runs, runOrder, currentTaskId, cancelling, proposedCode, executingCode, executionAction, now, issued, cancelReqs,
                       toolReq>>

\* sendPrompt when fetch(enqueue) rejects (a transport error), whether or not
\* the server took the request: sendPrompt has no try/catch, the rejection
\* leaves the function and nothing after the await runs
SendPromptThrow(i) ==
    LET req == enqueueReqs[i]
    IN  /\ enqueueReqs' = RemoveAt(enqueueReqs, i)
        /\ hist' = Did("sendPrompt", [NoEvent EXCEPT !.task_id = req.task_id],
                       NoToolReq, "throw")
        /\ UNCHANGED <<runs, runOrder, loading, currentTaskId, cancelling, proposedCode, executingCode, executionAction, now, issued, cancelReqs,
                       toolReq>>

\* cancelCurrentTask up to the await, were it to end the run locally
CancelStartEndsRun ==
    /\ loading
    /\ currentTaskId # NoTask
    /\ ~cancelling
    /\ cancelReqs < MaxInFlight
    /\ cancelling' = TRUE
    /\ cancelReqs' = cancelReqs + 1
    /\ loading' = FALSE
    /\ currentTaskId' = NoTask
    /\ hist' = Did("cancel", NoEvent, NoToolReq, "sent")
    /\ UNCHANGED <<runs, runOrder, proposedCode, executingCode, executionAction,
                   now, issued, enqueueReqs, toolReq>>

\* handleCancelTask and cancelCurrentTask up to the await of fetch(cancel);
\* the cancel button is rendered while loading with an active task
CancelStart ==
    /\ loading
    /\ currentTaskId # NoTask
    /\ ~cancelling
    /\ cancelReqs < MaxInFlight
    /\ cancelling' = TRUE
    /\ cancelReqs' = cancelReqs + 1
    /\ hist' = Did("cancel", NoEvent, NoToolReq, "sent")
    /\ UNCHANGED <<runs, runOrder, loading, currentTaskId, proposedCode, executingCode, executionAction, now, issued, enqueueReqs, toolReq>>

\* cancelCurrentTask after the await, without its catch block
CancelDoneNoCatch(outcome) ==
    /\ cancelReqs > 0
    /\ cancelReqs' = cancelReqs - 1
    /\ cancelling' = IF outcome = "not_ok" THEN FALSE ELSE cancelling
    /\ hist' = Did("cancel", NoEvent, NoToolReq, outcome)
    /\ UNCHANGED <<runs, runOrder, loading, currentTaskId, proposedCode,
                   executingCode, executionAction, now, issued, enqueueReqs,
                   toolReq>>

\* cancelCurrentTask after the await: res.ok, or !res.ok, or the catch
CancelDone(outcome) ==
    /\ cancelReqs > 0
    /\ cancelReqs' = cancelReqs - 1
    /\ cancelling' = IF outcome = "ok" THEN cancelling ELSE FALSE
    /\ hist' = Did("cancel", NoEvent, NoToolReq, outcome)
    /\ UNCHANGED <<runs, runOrder, loading, currentTaskId, proposedCode, executingCode, executionAction, now, issued, enqueueReqs, toolReq>>

\* the proposal bar: dismiss, or accept (setCode, then setProposedCode(null))
ResolveProposedCode ==
    /\ proposedCode # "null"
    /\ proposedCode' = "null"
    /\ hist' = Did("resolveProposedCode", NoEvent, NoToolReq, "none")
    /\ UNCHANGED <<runs, runOrder, loading, currentTaskId, cancelling, executingCode, executionAction, now, issued, enqueueReqs,
                   cancelReqs, toolReq>>

(* ------------------------ execution requests --------------------------- *)

IsPending(a) == a.kind = "exec_request" /\ a.status = "running"

HasPendingExecRequest(rs, order) ==
    \E i \in 1..Len(timelineActions(rs, order)) :
        IsPending(timelineActions(rs, order)[i])

\* find without the reverse: the first running exec_request of the timeline
pendingExecRequestFirst(rs, order) ==
    LET tl == timelineActions(rs, order)
    IN  IF HasPendingExecRequest(rs, order)
        THEN tl[CHOOSE i \in 1..Len(tl) :
                    /\ IsPending(tl[i])
                    /\ \A j \in 1..(i - 1) : ~IsPending(tl[j])]
        ELSE BlankAction

\* [...timelineActions].reverse().find(a => exec_request && running): the last
\* such action of the timeline (only read when there is one)
pendingExecRequest(rs, order) ==
    LET tl == timelineActions(rs, order)
    IN  IF HasPendingExecRequest(rs, order)
        THEN tl[CHOOSE i \in 1..Len(tl) :
                    /\ IsPending(tl[i])
                    /\ \A j \in (i + 1)..Len(tl) : ~IsPending(tl[j])]
        ELSE BlankAction

\* rejectMsg = pendingExecRequest.responseOnReject ?? 'Execution rejected.'
rejectMessage(pending) ==
    IF pending.responseOnReject = Undef THEN "Execution rejected."
    ELSE pending.responseOnReject

\* The Reject / Accept button, shown while there is a pending request and
\* enabled while no decision is being processed.  The handler returns at once
\* without an active task; else it runs up to the await of fetch(complete_tool),
\* keeping the pending request and the task id of the render it was made in.
ExecutionStart(accept, out) ==
    /\ HasPendingExecRequest(runs, runOrder)
    /\ ~executingCode
    /\ LET pending == pendingExecRequest(runs, runOrder)
           call == [active |-> TRUE, accept |-> accept, taskId |-> currentTaskId,
                    pending |-> pending,
                    rejectMsg |-> IF accept THEN Undef ELSE rejectMessage(pending),
                    output |-> IF accept THEN out ELSE Undef]
       IN  IF currentTaskId = NoTask
           THEN /\ hist' = Did(IF accept THEN "accept" ELSE "reject", NoEvent,
                               [call EXCEPT !.active = FALSE], "returned")
                /\ UNCHANGED <<executingCode, executionAction, toolReq>>
           ELSE /\ executingCode' = TRUE
                /\ executionAction' = IF accept THEN "accept" ELSE "reject"
                /\ toolReq' = call
                /\ hist' = Did(IF accept THEN "accept" ELSE "reject", NoEvent, call,
                               "sent")
    /\ UNCHANGED <<runs, runOrder, loading, currentTaskId, cancelling, proposedCode,
                   now, issued, enqueueReqs, cancelReqs>>

handleRejectExecutionStart == ExecutionStart(FALSE, Undef)

handleAcceptExecutionStart == \E out \in ExecOutputs : ExecutionStart(TRUE, out)

\* prev => ({...(prev as Action), status: 'failed'})
rejectUpdater(hasPrev, prev) ==
    [(IF hasPrev THEN prev ELSE BlankAction) EXCEPT !.status = "failed"]

\* noticeAction of handleRejectExecution
noticeAction(rejectMsg, clock) ==
    [BlankAction EXCEPT
        !.id = <<"reject", clock>>,
        !.kind = "system_notice",
        !.status = "done",
        !.message = rejectMsg,
        !.timestamp = IsoString(clock)]

\* the two updateAction calls of handleRejectExecution
rejectRuns(rs, call, clock) ==
    LET t == call.taskId
        c == call.pending.id
        marked == updateAction(rs, t, c,
                      rejectUpdater(HasAction(rs, t, c), ExistingAction(rs, t, c)))
        notice == noticeAction(call.rejectMsg, clock)
    IN  updateAction(marked, t, notice.id, notice)

\* resultAction of handleAcceptExecution
resultAction(out, clock) ==
    [BlankAction EXCEPT
        !.id = <<"exec_result", clock>>,
        !.kind = "exec_result",
        !.status = "done",
        !.output = out,
        !.timestamp = IsoString(clock)]

\* prev => ({...(prev as Action), status: 'done'})
acceptUpdater(hasPrev, prev) ==
    [(IF hasPrev THEN prev ELSE BlankAction) EXCEPT !.status = "done"]

\* the two updateAction calls of handleAcceptExecution
acceptRuns(rs, call, clock) ==
    LET t == call.taskId
        c == call.pending.id
        result == resultAction(call.output, clock)
        added == updateAction(rs, t, result.id, result)
    IN  updateAction(added, t, c,
            acceptUpdater(HasAction(added, t, c), ExistingAction(added, t, c)))

\* the handlers after the await, were the rejected fetch not caught: nothing
\* after the await runs
ExecutionDoneUncaught(outcome) ==
    /\ toolReq.active
    /\ runs' = IF outcome = "throw" THEN runs
               ELSE IF toolReq.accept THEN acceptRuns(runs, toolReq, now)
               ELSE rejectRuns(runs, toolReq, now)
    /\ Fits(runs', runOrder)
    /\ executingCode' = (outcome = "throw")
    /\ executionAction' = IF outcome = "throw" THEN executionAction ELSE "null"
    /\ toolReq' = NoToolReq
    /\ hist' = Did(IF toolReq.accept THEN "accept" ELSE "reject",
                   [NoEvent EXCEPT !.task_id = toolReq.taskId], toolReq, outcome)
    /\ UNCHANGED <<runOrder, loading, currentTaskId, cancelling, proposedCode, now,
                   issued, enqueueReqs, cancelReqs>>

\* handleRejectExecution / handleAcceptExecution after the await: the response
\* is not looked at, and a rejected fetch is caught and logged
ExecutionDone(outcome) ==
    /\ toolReq.active
    /\ runs' = IF toolReq.accept THEN acceptRuns(runs, toolReq, now)
               ELSE rejectRuns(runs, toolReq, now)
    /\ Fits(runs', runOrder)
    /\ executingCode' = FALSE
    /\ executionAction' = "null"
    /\ toolReq' = NoToolReq
    /\ hist' = Did(IF toolReq.accept THEN "accept" ELSE "reject",
                   [NoEvent EXCEPT !.task_id = toolReq.taskId], toolReq, outcome)
    /\ UNCHANGED <<runOrder, loading, currentTaskId, cancelling, proposedCode, now, issued, enqueueReqs, cancelReqs>>

(* --------------------------- specification ----------------------------- *)

Responses == {"ok", "not_ok", "throw"}

Next ==
    \/ handleWSMessage
    \/ Tick
    \/ \E text \in PromptInputs : SendPromptStart(text)
    \/ \E i \in 1..Len(enqueueReqs) : ServerEnqueue(i)
    \/ \E i \in 1..Len(enqueueReqs) : SendPromptOk(i)
    \/ \E i \in 1..Len(enqueueReqs) : SendPromptNotOk(i)
    \/ \E i \in 1..Len(enqueueReqs) : SendPromptThrow(i)
    \/ CancelStart
    \/ \E outcome \in Responses : CancelDone(outcome)
    \/ ResolveProposedCode
    \/ handleRejectExecutionStart
    \/ handleAcceptExecutionStart
    \/ \E outcome \in Responses : ExecutionDone(outcome)

Spec == Init /\ [][Next]_vars

(* ------------- the pending request over registry states ---------------- *)

\* Registries of up to MaxRuns runs, each a user message followed by up to
\* MaxSlots tool actions: execution requests still running or accepted (done),
\* and think calls still running; the active task, if any, is the run created
\* last.  The Accept / Reject handlers read the pending request from them.
SlotKinds == {"running", "done", "tool"}

SlotSeqs == UNION {[1..l -> SlotKinds] : l \in 0..MaxSlots}

SlotStarted(n, name) ==
    [NoEvent EXCEPT
        !.event_type = "progress_update_tool_action_started",
        !.timestamp = <<"event", 0>>,
        !.toolCall = [present |-> TRUE, id |-> <<"call", n>>, name |-> name,
                      arguments |-> "args_with_reject"]]

SlotAction(n, kind) ==
    CASE kind = "running" -> startAction(SlotStarted(n, "request_code_execution"))
      [] kind = "done" ->
            acceptUpdater(TRUE, startAction(SlotStarted(n, "request_code_execution")))
      [] OTHER -> startAction(SlotStarted(n, "think"))

SlotRun(t, slots) ==
    [taskId |-> t, prompt |-> <<"a">>,
     actions |-> <<userAction(<<"a">>, 0)>> \o
                 [i \in 1..Len(slots) |-> SlotAction((t - 1) * MaxSlots + i, slots[i])]]

\* runs are listed in creation order, which the task ids need not follow
RunOrders(k) == {[i \in 1..k |-> i], [i \in 1..k |-> k + 1 - i]}

PendingInit ==
    /\ \E k \in 0..MaxRuns : \E slots \in [1..k -> SlotSeqs] :
          /\ runs = [t \in 1..k |-> SlotRun(t, slots[t])]
          /\ runOrder \in RunOrders(k)
          /\ currentTaskId \in {NoTask} \cup {runOrder[i] : i \in {k} \ {0}}
    /\ loading = FALSE
    /\ cancelling = FALSE
    /\ proposedCode = "null"
    /\ executingCode = FALSE
    /\ executionAction = "null"
    /\ now = 0
    /\ issued = 0
    /\ enqueueReqs = << >>
    /\ cancelReqs = 0
    /\ toolReq = NoToolReq
    /\ hist = [op |-> "init", type |-> "none", task |-> NoTask, id |-> UndefId,
               name |-> Undef, text |-> UndefText, result |-> NoOutput,
               error |-> Undef, hadRun |-> FALSE, before |-> << >>,
               call |-> NoToolReq, outcome |-> "none"]

PendingNext ==
    \/ handleRejectExecutionStart
    \/ handleAcceptExecutionStart

PendingSpec == PendingInit /\ [][PendingNext]_vars

(* ------------------------------- claims -------------------------------- *)

CountId(actions, actionId) ==
    Cardinality({i \in 1..Len(actions) : actions[i].id = actionId})

HandledEvent(type) == hist.op = "ws" /\ hist.type = type

\* the actions of the run of the last handler's task
After == runs[hist.task].actions

\* C1: when a completed event of a tool other than request_code_execution is
\* handled for a run that holds no action with the tool call's id, the run then
\* holds exactly one action with that id, of kind tool_completed and status done.
C1_CompletedBeforeStarted ==
    (/\ HandledEvent("progress_update_tool_action_completed")
     /\ hist.id \in CallIds
     /\ hist.name # "request_code_execution"
     /\ hist.hadRun
     /\ CountId(hist.before, hist.id) = 0)
    => /\ CountId(After, hist.id) = 1
       /\ \E i \in 1..Len(After) :
             /\ After[i].id = hist.id
             /\ After[i].kind = "tool_completed"
             /\ After[i].status = "done"

C1_Witness ==
    /\ HandledEvent("progress_update_tool_action_completed")
    /\ hist.name = "think"
    /\ hist.hadRun
    /\ CountId(hist.before, hist.id) = 0
    /\ CountId(After, hist.id) = 1

\* C2: no run ever holds two actions with the same id.
C2_UniqueIds ==
    \A t \in DOMAIN runs :
        \A i, j \in 1..Len(runs[t].actions) :
            i # j => runs[t].actions[i].id # runs[t].actions[j].id

\* C3: the reducer never handles an event of a task whose run is not yet held.
C3_RunBeforeEvents ==
    hist.op = "ws" => hist.hadRun

\* C4: after an agent_output event is handled the active-task pointer is null
\* and the loading flag is false.
C4_AgentOutputClears ==
    HandledEvent("agent_output") => (currentTaskId = NoTask /\ ~loading)

C4_Witness ==
    /\ HandledEvent("agent_output")
    /\ cancelling
    /\ hist.hadRun
    /\ currentTaskId = NoTask
    /\ ~loading

\* C5: a run_failed (run_cancelled) event of a held run appends exactly one
\* system_notice of status done with the message "Failed to get agent response."
\* ("Task was cancelled."), and leaves loading false, cancelling false and the
\* active-task pointer null.
C5_TerminalNotice ==
    ((HandledEvent("run_failed") \/ HandledEvent("run_cancelled")) /\ hist.hadRun)
    => /\ Len(After) = Len(hist.before) + 1
       /\ SubSeq(After, 1, Len(hist.before)) = hist.before
       /\ After[Len(After)].kind = "system_notice"
       /\ After[Len(After)].status = "done"
       /\ After[Len(After)].message =
            (IF hist.type = "run_failed" THEN "Failed to get agent response."
             ELSE "Task was cancelled.")
       /\ ~loading
       /\ ~cancelling
       /\ currentTaskId = NoTask

C5_Witness ==
    /\ HandledEvent("run_failed")
    /\ hist.hadRun
    /\ cancelReqs > 0
    /\ Len(After) = Len(hist.before) + 1
    /\ After[Len(After)].message = "Failed to get agent response."

\* C6: when the enqueue request of a prompt p succeeds with task id t, then run
\* t is held with prompt p, t is the last of runOrder, the active-task pointer
\* is t, and run t holds a user_message of status done with content p.
C6_SubmitCreatesRun ==
    (hist.op = "sendPrompt" /\ hist.outcome = "ok")
    => /\ HasRun(runs, hist.task)
       /\ runs[hist.task].prompt = hist.text
       /\ runOrder # << >>
       /\ runOrder[Len(runOrder)] = hist.task
       /\ currentTaskId = hist.task
       /\ \E i \in 1..Len(After) :
             /\ After[i].kind = "user_message"
             /\ After[i].status = "done"
             /\ After[i].content = hist.text

C6_Witness ==
    /\ hist.op = "sendPrompt"
    /\ hist.outcome = "ok"
    /\ hist.text = <<" ", "a">>
    /\ HasRun(runs, hist.task)
    /\ After[Len(After)].content = <<" ", "a">>

\* C7: a started event of request_code_execution with id c appends to its run
\* an exec_request with id c and status running, and a completed event of
\* request_code_execution leaves the run's action sequence as it was.
C7_ExecRequestCompletionSuppressed ==
    /\ (/\ HandledEvent("progress_update_tool_action_started")
        /\ hist.name = "request_code_execution"
        /\ hist.hadRun)
       => /\ Len(After) = Len(hist.before) + 1
          /\ SubSeq(After, 1, Len(hist.before)) = hist.before
          /\ After[Len(After)].id = hist.id
          /\ After[Len(After)].kind = "exec_request"
          /\ After[Len(After)].status = "running"
    /\ (/\ HandledEvent("progress_update_tool_action_completed")
        /\ hist.name = "request_code_execution"
        /\ hist.hadRun)
       => After = hist.before

C7_Witness ==
    /\ HandledEvent("progress_update_tool_action_completed")
    /\ hist.name = "request_code_execution"
    /\ hist.hadRun
    /\ \E i \in 1..Len(hist.before) :
          /\ hist.before[i].id = hist.id
          /\ hist.before[i].kind = "exec_request"
          /\ hist.before[i].status = "running"
    /\ After = hist.before

\* C8: when the enqueue request fails, by a non-success response or by a
\* transport error, the loading flag is false afterwards, and the task the
\* server may have issued for it has no run and is not the active task.
C8_EnqueueFailureClearsLoading ==
    (hist.op = "sendPrompt" /\ hist.outcome \in {"not_ok", "throw"})
    => /\ ~loading
       /\ hist.task # NoTask
            => (~HasRun(runs, hist.task) /\ currentTaskId # hist.task)

\* the pending request a Reject / Accept click was made on is still the
\* pending request
StillPending ==
    /\ HasPendingExecRequest(runs, runOrder)
    /\ pendingExecRequest(runs, runOrder) = hist.call.pending

\* some run holds the request the click was made on, unchanged but for its
\* status, which is the given one
HoldsRequestWithStatus(status) ==
    \E t \in DOMAIN runs : \E i \in 1..Len(runs[t].actions) :
        runs[t].actions[i] = [hist.call.pending EXCEPT !.status = status]

\* C9: once Reject has been handled on a pending exec_request, that action is
\* failed in the run that holds it (id, kind and position as before), a
\* system_notice with the request's reject text (or 'Execution rejected.') is
\* held, and the request is no longer the pending request.
C9_RejectResolvesPending ==
    (hist.op = "reject" /\ hist.outcome # "sent")
    => /\ HoldsRequestWithStatus("failed")
       /\ \E t \in DOMAIN runs : \E i \in 1..Len(runs[t].actions) :
             /\ runs[t].actions[i].kind = "system_notice"
             /\ runs[t].actions[i].message =
                  (IF hist.call.pending.responseOnReject = Undef
                   THEN "Execution rejected."
                   ELSE hist.call.pending.responseOnReject)
       /\ ~StillPending

\* C10: once Accept has been handled on a pending exec_request, an exec_result
\* of status done with the captured output is held, that request is done in the
\* run that holds it (id, kind and position as before), and it is no longer the
\* pending request.
C10_AcceptResolvesPending ==
    (hist.op = "accept" /\ hist.outcome # "sent")
    => /\ HoldsRequestWithStatus("done")
       /\ \E t \in DOMAIN runs : \E i \in 1..Len(runs[t].actions) :
             /\ runs[t].actions[i].kind = "exec_result"
             /\ runs[t].actions[i].status = "done"
             /\ runs[t].actions[i].output = hist.call.output
       /\ ~StillPending

\* C11: once Accept or Reject has been handled on a request held by the run of
\* the call, whether the complete_tool request succeeded, returned a
\* non-success response or failed in transport, the request is in its place
\* with the decided status (done / failed), the exec_result with the captured
\* output (the system_notice with the reject text) is held, and the
\* executing-in-progress flag is cleared.
C11_SendFailureTolerated ==
    (/\ hist.op \in {"accept", "reject"}
     /\ hist.outcome \in Responses
     /\ CountId(hist.before, hist.call.pending.id) > 0)
    => /\ ~executingCode
       /\ executionAction = "null"
       /\ \E i \in 1..Len(hist.before) :
             /\ hist.before[i].id = hist.call.pending.id
             /\ After[i] = [hist.before[i] EXCEPT
                               !.status = IF hist.call.accept THEN "done" ELSE "failed"]
       /\ \E j \in 1..Len(After) :
             /\ After[j].status = "done"
             /\ IF hist.call.accept
                THEN After[j].kind = "exec_result" /\ After[j].output = hist.call.output
                ELSE /\ After[j].kind = "system_notice"
                     /\ After[j].message = hist.call.rejectMsg

C11_Witness ==
    /\ hist.op = "accept"
    /\ hist.outcome = "throw"
    /\ CountId(hist.before, hist.call.pending.id) > 0
    /\ ~executingCode
    /\ \E j \in 1..Len(After) : After[j].kind = "exec_result"

\* C12: the pending execution request is the last action, taking the runs in
\* runOrder and each run's actions in insertion order, of kind exec_request and
\* status running; there is none when no action is such.  The Accept / Reject
\* handlers act on that one.
C12_PendingIsLatestRunning ==
    LET running(a) == a.kind = "exec_request" /\ a.status = "running"
        holds(k) == \E i \in 1..Len(runs[runOrder[k]].actions) :
                        running(runs[runOrder[k]].actions[i])
        latest(p) ==
            \E k \in 1..Len(runOrder) :
                LET as == runs[runOrder[k]].actions
                IN  /\ \A k2 \in (k + 1)..Len(runOrder) : ~holds(k2)
                    /\ \E i \in 1..Len(as) :
                          /\ running(as[i])
                          /\ p = as[i]
                          /\ \A j \in (i + 1)..Len(as) : ~running(as[j])
    IN  /\ HasPendingExecRequest(runs, runOrder)
            <=> \E k \in 1..Len(runOrder) : holds(k)
        /\ HasPendingExecRequest(runs, runOrder)
            => latest(pendingExecRequest(runs, runOrder))
        /\ hist.op \in {"accept", "reject"} => latest(hist.call.pending)

\* requests [done, running] in the first run and [running] in the second: the
\* handler acts on the request of the second run
C12_Witness ==
    /\ runOrder = <<1, 2>>
    /\ Len(runs[1].actions) = 3
    /\ runs[1].actions[2].kind = "exec_request"
    /\ runs[1].actions[2].status = "done"
    /\ runs[1].actions[3].kind = "exec_request"
    /\ runs[1].actions[3].status = "running"
    /\ Len(runs[2].actions) = 2
    /\ runs[2].actions[2].kind = "exec_request"
    /\ runs[2].actions[2].status = "running"
    /\ hist.op = "reject"
    /\ hist.call.pending = runs[2].actions[2]
    /\ hist.call.pending # runs[1].actions[3]

\* C13: a cancelCurrentTask call that goes through leaves the cancelling flag
\* set, and when its request fails, by a non-success response or by a
\* transport error, the flag is false once the call has completed (so the
\* guard of a later call, which returns on cancelling, lets it through).
C13_CancelFailureClearsFlag ==
    /\ (hist.op = "cancel" /\ hist.outcome = "sent") => cancelling
    /\ (hist.op = "cancel" /\ hist.outcome \in {"not_ok", "throw"}) => ~cancelling

C13_Witness ==
    /\ hist.op = "cancel"
    /\ hist.outcome = "throw"
    /\ ~cancelling
    /\ loading
    /\ currentTaskId # NoTask

\* C15: in every step no run is removed, runOrder keeps what it held and only
\* grows at its end, and in every run the action sequence gets no shorter and
\* each position keeps the action (by id) it held.
C15_Monotonic ==
    [][/\ DOMAIN runs \subseteq DOMAIN runs'
       /\ Len(runOrder') >= Len(runOrder)
       /\ SubSeq(runOrder', 1, Len(runOrder)) = runOrder
       /\ \A t \in DOMAIN runs :
            /\ Len(runs'[t].actions) >= Len(runs[t].actions)
            /\ \A i \in 1..Len(runs[t].actions) :
                  runs'[t].actions[i].id = runs[t].actions[i].id]_vars

\* a failed event resolved against a started record that is not the last one
C15_Witness ==
    /\ HandledEvent("progress_update_tool_action_failed")
    /\ hist.hadRun
    /\ Len(After) = Len(hist.before)
    /\ \E i \in 1..(Len(After) - 1) :
          /\ hist.before[i].id = hist.id
          /\ hist.before[i].kind = "tool_started"
          /\ After[i].kind = "tool_failed"

\* a completed event of a tool other than request_code_execution was handled
\* for a run whose first action with the call's id was a tool_started
CompletedOverStarted ==
    /\ HandledEvent("progress_update_tool_action_completed")
    /\ hist.id \in CallIds
    /\ hist.name # "request_code_execution"
    /\ hist.hadRun
    /\ CountId(hist.before, hist.id) > 0
    /\ hist.before[IndexOfAction(hist.before, hist.id)].kind = "tool_started"

\* the started record has become the completed one, in its place
ResolvedInPlace ==
    LET i == IndexOfAction(hist.before, hist.id)
    IN  /\ After[i].id = hist.id
        /\ After[i].kind = "tool_completed"
        /\ After[i].status = "done"
        /\ After[i].result = hist.result
        /\ After[i].toolName = hist.before[i].toolName
        /\ \A j \in 1..Len(hist.before) : j # i => After[j] = hist.before[j]

C17_FailedUpserts ==
    (HandledEvent("progress_update_tool_action_failed") /\ hist.id \in CallIds
        /\ hist.hadRun)
    => /\ CountId(After, hist.id) = 1
       /\ \E i \in 1..Len(After) :
             /\ After[i].id = hist.id
             /\ After[i].kind = "tool_failed"
             /\ After[i].status = "failed"
             /\ After[i].error = hist.error
       /\ IF CountId(hist.before, hist.id) > 0
          THEN /\ Len(After) = Len(hist.before)
               /\ After[IndexOfAction(hist.before, hist.id)].kind = "tool_failed"
          ELSE /\ Len(After) = Len(hist.before) + 1
               /\ After[Len(After)].id = hist.id
               /\ After[Len(After)].toolName = hist.name
               /\ After[Len(After)].timestamp \in EventTimestamps

\* the last handler was the reducer on an event it has no case for, or on a
\* tool event without tool-call descriptor
IgnoredHandled(h) ==
    /\ h.op = "ws"
    /\ \/ h.type \notin HandledTypes
       \/ h.type \in ToolEventTypes /\ h.id = UndefId

\* C18: a step in which the reducer handles an event of an unknown type, or a
\* tool event whose tool-call descriptor is absent, changes none of runs,
\* runOrder, loading, cancelling, the active-task pointer and proposedCode.
C18_IgnoredEventNoChange ==
    [][IgnoredHandled(hist')
       => UNCHANGED <<runs, runOrder, loading, cancelling, currentTaskId,
                      proposedCode>>]_vars

C18_Witness ==
    /\ IgnoredHandled(hist)
    /\ hist.type = "progress_update_tool_action_completed"
    /\ hist.hadRun
    /\ loading
    /\ currentTaskId # NoTask

\* number of 'Task was cancelled.' notices held
CancelNotices(rs, order) ==
    Cardinality({i \in 1..Len(timelineActions(rs, order)) :
        /\ timelineActions(rs, order)[i].kind = "system_notice"
        /\ timelineActions(rs, order)[i].message = "Task was cancelled."})

\* C19: a step of cancelCurrentTask (the call, or its completion whatever the
\* response) changes none of runs, runOrder, loading and the active-task
\* pointer; and a 'Task was cancelled.' notice comes to be held only in a step
\* in which the reducer handles a run_cancelled event.
C19_CancelObservational ==
    [][/\ hist'.op = "cancel" => UNCHANGED <<runs, runOrder, loading, currentTaskId>>
       /\ CancelNotices(runs', runOrder') # CancelNotices(runs, runOrder)
            => (hist'.op = "ws" /\ hist'.type = "run_cancelled")]_vars

C19_Witness ==
    /\ hist.op = "cancel"
    /\ hist.outcome = "ok"
    /\ cancelling
    /\ loading
    /\ currentTaskId # NoTask
    /\ CancelNotices(runs, runOrder) = 0

\* the reducer's last two events are the same event
SameEvent(h1, h2) ==
    /\ h1.op = "ws"
    /\ h2.op = "ws"
    /\ <<h1.type, h1.task, h1.id, h1.name, h1.text, h1.result, h1.error>>
        = <<h2.type, h2.task, h2.id, h2.name, h2.text, h2.result, h2.error>>

\* C20: handling an event the reducer has just handled changes neither the
\* registry nor the session flags.
C20_ReducerIdempotent ==
    [][SameEvent(hist, hist')
       => UNCHANGED <<runs, runOrder, loading, cancelling, currentTaskId,
                      proposedCode>>]_vars

\* some action of the sequence has this id and status running
RunningIn(actions, actionId) ==
    \E i \in 1..Len(actions) :
        actions[i].id = actionId /\ actions[i].status = "running"

\* C21: once a run holds an action with id c and status done or failed, the
\* next state (and so every later one) holds no action with id c and status
\* running in that run.
C21_StatusMonotonic ==
    [][\A t \in DOMAIN runs : \A i \in 1..Len(runs[t].actions) :
          runs[t].actions[i].status \in {"done", "failed"}
          => ~RunningIn(runs'[t].actions, runs[t].actions[i].id)]_vars

\* C22: when no cancel request awaits its response and the cancelling flag is
\* set, there is an active task.
C22_CancellingHasTask ==
    (cancelReqs = 0 /\ cancelling) => currentTaskId # NoTask

\* the sequence holds the record of a terminal event: a final_answer, or the
\* notice of run_cancelled or of run_failed
Ended(actions) ==
    \E i \in 1..Len(actions) :
        \/ actions[i].kind = "final_answer"
        \/ /\ actions[i].kind = "system_notice"
           /\ actions[i].message \in {"Task was cancelled.",
                                       "Failed to get agent response."}

\* C23: a non-null active-task pointer names a run that is held and holds the
\* record of no terminal event, and loading is true.
C23_ActivePointerLive ==
    currentTaskId # NoTask
    => /\ HasRun(runs, currentTaskId)
       /\ ~Ended(runs[currentTaskId].actions)
       /\ loading

\* C24: right after a terminal event of a held run no action of that run is
\* running; no run holding the record of a terminal event holds a running
\* exec_request; and whenever there is a pending execution request there is
\* an active task, so that Accept and Reject pass their guard.
C24_FinishedRunNotPending ==
    /\ ((HandledEvent("agent_output") \/ HandledEvent("run_cancelled")
            \/ HandledEvent("run_failed")) /\ hist.hadRun)
       => \A i \in 1..Len(After) : After[i].status # "running"
    /\ \A t \in DOMAIN runs :
          Ended(runs[t].actions)
          => \A i \in 1..Len(runs[t].actions) : ~IsPending(runs[t].actions[i])
    /\ HasPendingExecRequest(runs, runOrder) => currentTaskId # NoTask

\* C25: at most one enqueue request awaits its response.
C25_OneEnqueueInFlight ==
    Len(enqueueReqs) <= 1

\* C26: every run holding actions has as its first action the user_message
\* whose content is the run's prompt.
C26_UserMessageFirst ==
    \A t \in DOMAIN runs :
        Len(runs[t].actions) > 0
        => /\ runs[t].actions[1].kind = "user_message"
           /\ runs[t].actions[1].content = runs[t].prompt

\* a run opened by its user_message and holding the record of a server event
C26_Witness ==
    \E t \in DOMAIN runs :
        /\ Len(runs[t].actions) > 1
        /\ runs[t].actions[1].kind = "user_message"
        /\ runs[t].actions[1].content = runs[t].prompt
        /\ hist.op = "ws"
        /\ hist.task = t
        /\ Len(runs[t].actions) > Len(hist.before)
        /\ runs[t].actions[Len(runs[t].actions)].kind # "user_message"
====
